---- MODULE Spec2Model ----
(***************************************************************************)
(* Delivery-ratio streamers of src/eval/series.py:                         *)
(*   generate_running_delivery      (simple mode,    lines  85-122)        *)
(*   generate_running_delivery_ttl  (TTL-aware mode, lines 125-196)        *)
(* Both merge a creation log and a delivery log (the field lists that      *)
(* filtered_split_reader yields) with two cursors and write one            *)
(* "<time> <ratio>" line per event, or per grid point when fixedres is     *)
(* given.  One behaviour of the model is one call of one of the two        *)
(* functions on one pair of logs.                                          *)
(*                                                                         *)
(* The other report generators of src/eval are applied to their inputs in  *)
(* specifications of their own:                                            *)
(*   group_from_hostname, generate_delivery_matrix (delivery_matrix.py)    *)
(*   generate_delay                                (delay.py)              *)
(*   read_unique_encounters, write_unique_encounters (encounters.py)       *)
(*   average_vals                                  (average.py)            *)
(***************************************************************************)
EXTENDS Integers, Sequences, FiniteSets, TLC

\* ---------------------------------------------------------------- bounds
\* Total number of event lines over both logs of one run.
MaxEvents == 3

\* Timestamps (seconds) an event line may carry, message ids, logged TTLs
\* (minutes) and the resolutions a caller may pass as fixedres.
Times == {0, 30, 60, 90}
Ids == {"A", "B"}
TtlMinutes == {0, 1}
Resolutions == {30, 60}

\* ------------------------------------------------------- program constants
\* created_last_ttl = float(next_created[5]) * 60   (TTL is in min)
TtlFactor == 60
\* float('inf'): the head timestamp of an exhausted cursor; above every time.
Inf == 999999
\* fixedres=None: no resampling.
NoRes == 0

VARIABLES
    createdLog,                 \* lines of created_file, in file order
    deliveredLog,               \* lines of infile (the delivery log)
    mode,                       \* which function runs
    fixedres,                   \* the fixedres argument (NoRes for None)
    pc,                         \* position in the function body
    created,                    \* created
    delivered,                  \* delivered
    created_last_timestamp,     \* head of the creation cursor, or Inf
    delivered_last_timestamp,   \* head of the delivery cursor, or Inf
    created_iter,               \* lines created_iter has yielded so far
    delivered_iter,             \* lines delivered_iter has yielded so far
    created_list,               \* deque of (expiry, id), TTL mode
    delivered_ids,              \* set of ids read from the delivery log, TTL mode
    last_write,                 \* last grid point written
    current_time,               \* current_time of the running iteration
    delivery,                   \* last computed ratio
    outfile,                    \* lines written so far
    iters,                      \* completed evaluations of the merge branch
    \* src/eval/delivery_matrix.py
    hostname,                   \* argument of group_from_hostname
    group,                      \* its return value
    pdr,                        \* pdr of generate_delivery_matrix
    \* src/eval/delay.py
    delays,                     \* return value of generate_delay
    \* src/eval/encounters.py
    encounters,                 \* rows of the encounters report
    unique_encounters_count,    \* unique_encounters_count
    \* src/eval/average.py
    infiles,                    \* the rows of each input file of average_vals
    maxcols,                    \* the maxcols argument (NoCap for None)
    iterators,                  \* lines each iterator has yielded so far
    warncount,                  \* warncount
    stdout,                     \* warnings printed so far
    handles,                    \* input files whose handle is open
    ioerrors,                   \* files open() fails on (0: the output file)
    \* src/eval/filter.py
    file,                       \* lines of the file filtered_split_reader reads
    file_iter,                  \* lines the loop over file has consumed
    yielded                     \* the lists filtered_split_reader has yielded

\* Locals of the two streamers of series.py.
seriesLocals == <<fixedres, created, delivered, created_last_timestamp,
                  delivered_last_timestamp, created_iter, delivered_iter,
                  created_list, delivered_ids, last_write, current_time,
                  delivery, iters>>

hostVars == <<hostname, group>>
averageVars == <<infiles, maxcols, iterators, warncount, stdout, handles,
                 ioerrors>>

filterVars == <<file, file_iter, yielded>>

\* State of the report generators other than the streamers.
reportVars == <<hostVars, pdr, delays, encounters, unique_encounters_count,
                averageVars, filterVars>>

vars == <<createdLog, deliveredLog, mode, pc, outfile, seriesLocals, reportVars>>

\* ---------------------------------------------------------------- helpers
Min(a, b) == IF a <= b THEN a ELSE b

Abs(n) == IF n < 0 THEN 0 - n ELSE n

RECURSIVE GCD(_, _)
GCD(a, b) == IF b = 0 THEN a ELSE GCD(b, a % b)

\* The division without float(): Python 2 divides two ints with floor.
FractionFloor(n, d) == <<n \div d, 1>>

\* float(n) / d for d # 0, as the reduced fraction <<numerator, denominator>>
\* with a positive denominator (two floats are equal iff the fractions are).
Fraction(n, d) ==
    LET g == GCD(Abs(n), Abs(d))
        s == IF d < 0 THEN 0 - 1 ELSE 1
    IN  <<(s * n) \div g, (s * d) \div g>>

\* The value 0 (delivery = 0 of the ZeroDivisionError handler; float 0.0).
Zero == <<0, 1>>

\* A line of the creation log: [0]=timestamp, [1]=message id, [5]=ttl (minutes).
CreatedLine == [t : Times, id : Ids, ttl : TtlMinutes]
\* A line of the delivery log: [0]=timestamp, [1]=message id.
DeliveredLine == [t : Times, id : Ids]

\* Logs of n lines sorted ascending by timestamp.
SortedLogs(Line, n) ==
    {s \in [1..n -> Line] : \A i \in 1..(n - 1) : s[i].t <= s[i + 1].t}

\* An entry whose expiry adds the ttl field as it stands, without the
\* conversion from minutes to seconds.
PendingEntryInSeconds(line) == [expiry |-> line.t + line.ttl, id |-> line.id]

\* (created_last_timestamp + created_last_ttl, created_last_id)
PendingEntry(line) == [expiry |-> line.t + line.ttl * TtlFactor, id |-> line.id]

\* float(it.next()[0]), or float('inf') on StopIteration; n lines were yielded.
HeadAfter(log, n) == IF n < Len(log) THEN log[n + 1].t ELSE Inf

\* while created_last_timestamp != inf or delivered_last_timestamp != inf
LoopCond == created_last_timestamp # Inf \/ delivered_last_timestamp # Inf

\* The tie-break turned round: equal heads advance the delivery cursor.
TakeCreatedStrict == delivered_last_timestamp > created_last_timestamp

\* if delivered_last_timestamp >= created_last_timestamp
TakeCreated == delivered_last_timestamp >= created_last_timestamp

\* The grid loop testing the point already written instead of the next one.
GridDueLate == last_write < current_time

\* The grid loop with <= for <: a grid point equal to current_time is due.
GridDueInclusive == last_write + fixedres <= current_time

\* while last_write + fixedres < current_time
GridDue == last_write + fixedres < current_time

\* The pruning loop sparing the entries that expired less than a minute ago.
FrontExpiredLate(boundary) ==
    Len(created_list) > 0 /\ created_list[1].expiry < boundary - TtlFactor

\* while len(created_list) > 0 and created_list[0][0] < boundary
FrontExpired(boundary) ==
    Len(created_list) > 0 /\ created_list[1].expiry < boundary

\* try: float(delivered) / created  except ZeroDivisionError: 0
GuardedRatio(d, c) == IF c = 0 THEN Zero ELSE Fraction(d, c)

\* Lines of each log the merge branch has counted so far: every line the
\* iterator has yielded, but the one waiting at the head of the cursor.
CreatedCounted ==
    IF created_last_timestamp = Inf THEN created_iter ELSE created_iter - 1

DeliveredCounted ==
    IF delivered_last_timestamp = Inf THEN delivered_iter ELSE delivered_iter - 1

\* One output line "<t> <ratio>".  The fields after ratio are not written to
\* the file: they record the counts the ratio was computed from and how many
\* lines of each log had been counted when the line was written.
Sample(t, r) ==
    [t |-> t, ratio |-> r, created |-> created, delivered |-> delivered,
     nc |-> CreatedCounted, nd |-> DeliveredCounted]

\* None: the return value of group_from_hostname without a match and the
\* value of a variable no function has assigned.  No group equals it: a
\* group is a sequence of single characters.
None == <<"None">>

\* maxcols=None: no cap on the columns average_vals reads.
NoCap == 0 - 1

\* warncount = 1
FirstWarncount == 1

\* A report generator that is not the one running holds no state.
HostIdle == hostname = None /\ group = None
MatrixIdle == pdr = None
DelayIdle == delays = None
EncountersIdle == encounters = <<>> /\ unique_encounters_count = None
AverageIdle ==
    /\ infiles = <<>>
    /\ maxcols = NoCap
    /\ iterators = <<>>
    /\ warncount = FirstWarncount
    /\ stdout = 0
    /\ handles = {}
    /\ ioerrors = {}

FilterIdle == file = <<>> /\ file_iter = 0 /\ yielded = <<>>

\* No report generator other than a streamer of series.py has been called.
ReportsIdle ==
    /\ HostIdle /\ MatrixIdle /\ DelayIdle /\ EncountersIdle /\ AverageIdle
    /\ FilterIdle

\* Neither streamer of series.py has been called.
SeriesIdle ==
    /\ fixedres = NoRes
    /\ created = 0
    /\ delivered = 0
    /\ created_last_timestamp = Inf
    /\ delivered_last_timestamp = Inf
    /\ created_iter = 0
    /\ delivered_iter = 0
    /\ created_list = <<>>
    /\ delivered_ids = {}
    /\ last_write = 0
    /\ current_time = 0
    /\ delivery = Zero
    /\ iters = 0

\* ------------------------------------------------------------------- Init
\* The state on entry to the while loop (after lines 89-101 / 129-150): both
\* cursors have read their first line.
Init ==
    /\ createdLog \in UNION {SortedLogs(CreatedLine, n) : n \in 0..MaxEvents}
    /\ deliveredLog \in UNION {SortedLogs(DeliveredLine, n) :
                                 n \in 0..(MaxEvents - Len(createdLog))}
    /\ mode \in {"simple", "ttl"}
    /\ fixedres \in {NoRes} \cup Resolutions
    /\ pc = "loop"
    /\ created = 0
    /\ delivered = 0
    /\ created_iter = IF Len(createdLog) > 0 THEN 1 ELSE 0
    /\ delivered_iter = IF Len(deliveredLog) > 0 THEN 1 ELSE 0
    /\ created_last_timestamp = HeadAfter(createdLog, 0)
    /\ delivered_last_timestamp = HeadAfter(deliveredLog, 0)
    /\ created_list = IF mode = "ttl" /\ Len(createdLog) > 0
                      THEN <<PendingEntry(createdLog[1])>> ELSE <<>>
    /\ delivered_ids = IF mode = "ttl" /\ Len(deliveredLog) > 0
                       THEN {deliveredLog[1].id} ELSE {}
    /\ last_write = 0
    /\ current_time = 0
    /\ delivery = Zero
    /\ outfile = <<>>
    /\ iters = 0
    /\ ReportsIdle

\* ---------------------------------------------------------------- actions
\* Where control goes after the merge branch.
AfterMerge ==
    IF mode = "simple" THEN "ratio"
    ELSE IF fixedres = NoRes THEN "prune" ELSE "grid"

\* Lines 103-109 / 152-162: count the creation at the head, read the next.
MergeCreated ==
    /\ pc = "loop" /\ LoopCond /\ TakeCreated
    /\ current_time' = Min(created_last_timestamp, delivered_last_timestamp)
    /\ created' = created + 1
    /\ IF created_iter < Len(createdLog)
       THEN /\ created_iter' = created_iter + 1
            /\ created_last_timestamp' = HeadAfter(createdLog, created_iter)
            /\ created_list' = IF mode = "ttl"
                               THEN Append(created_list,
                                           PendingEntry(createdLog[created_iter + 1]))
                               ELSE created_list
       ELSE /\ created_last_timestamp' = Inf
            /\ UNCHANGED <<created_iter, created_list>>
    /\ iters' = iters + 1
    /\ pc' = AfterMerge
    /\ UNCHANGED reportVars
    /\ UNCHANGED <<createdLog, deliveredLog, mode, fixedres, delivered,
                   delivered_last_timestamp, delivered_iter, delivered_ids,
                   last_write, delivery, outfile>>

\* Lines 103-104, 110-115 / 152-153, 163-171: count the delivery at the head.
MergeDelivered ==
    /\ pc = "loop" /\ LoopCond /\ ~TakeCreated
    /\ current_time' = Min(created_last_timestamp, delivered_last_timestamp)
    /\ delivered' = delivered + 1
    /\ IF delivered_iter < Len(deliveredLog)
       THEN /\ delivered_iter' = delivered_iter + 1
            /\ delivered_last_timestamp' = HeadAfter(deliveredLog, delivered_iter)
            /\ delivered_ids' = IF mode = "ttl"
                                THEN delivered_ids \cup {deliveredLog[delivered_iter + 1].id}
                                ELSE delivered_ids
       ELSE /\ delivered_last_timestamp' = Inf
            /\ UNCHANGED <<delivered_iter, delivered_ids>>
    /\ iters' = iters + 1
    /\ pc' = AfterMerge
    /\ UNCHANGED reportVars
    /\ UNCHANGED <<createdLog, deliveredLog, mode, fixedres, created,
                   created_last_timestamp, created_iter, created_list,
                   last_write, delivery, outfile>>

\* Line 102 / 151: the loop condition is false.
LoopExit ==
    /\ pc = "loop" /\ ~LoopCond
    /\ pc' = "done"
    /\ UNCHANGED reportVars
    /\ UNCHANGED <<createdLog, deliveredLog, mode, fixedres, created, delivered,
                   created_last_timestamp, delivered_last_timestamp,
                   created_iter, delivered_iter, created_list, delivered_ids,
                   last_write, current_time, delivery, outfile, iters>>

\* Line 116: delivery = float(delivered) / created.
SimpleRatio ==
    /\ pc = "ratio" /\ created # 0
    /\ delivery' = Fraction(delivered, created)
    /\ pc' = IF fixedres = NoRes THEN "write" ELSE "grid"
    /\ UNCHANGED reportVars
    /\ UNCHANGED <<createdLog, deliveredLog, mode, fixedres, created, delivered,
                   created_last_timestamp, delivered_last_timestamp,
                   created_iter, delivered_iter, created_list, delivered_ids,
                   last_write, current_time, outfile, iters>>

\* Line 116 with created = 0: ZeroDivisionError, caught nowhere; the with
\* statement closes the files and the call ends with the exception.
SimpleZeroDivision ==
    /\ pc = "ratio" /\ created = 0
    /\ pc' = "error"
    /\ UNCHANGED reportVars
    /\ UNCHANGED <<createdLog, deliveredLog, mode, fixedres, created, delivered,
                   created_last_timestamp, delivered_last_timestamp,
                   created_iter, delivered_iter, created_list, delivered_ids,
                   last_write, current_time, delivery, outfile, iters>>

\* Lines 117-118: one line per event.
SimpleWrite ==
    /\ pc = "write"
    /\ outfile' = Append(outfile, Sample(current_time, delivery))
    /\ pc' = "loop"
    /\ UNCHANGED reportVars
    /\ UNCHANGED <<createdLog, deliveredLog, mode, fixedres, created, delivered,
                   created_last_timestamp, delivered_last_timestamp,
                   created_iter, delivered_iter, created_list, delivered_ids,
                   last_write, current_time, delivery, iters>>

\* Lines 120-122: one pass of the grid loop of the simple mode.
SimpleGridWrite ==
    /\ pc = "grid" /\ mode = "simple" /\ GridDue
    /\ last_write' = last_write + fixedres
    /\ outfile' = Append(outfile, Sample(last_write + fixedres, delivery))
    /\ UNCHANGED reportVars
    /\ UNCHANGED <<createdLog, deliveredLog, mode, fixedres, pc, created, delivered,
                   created_last_timestamp, delivered_last_timestamp,
                   created_iter, delivered_iter, created_list, delivered_ids,
                   current_time, delivery, iters>>

\* Line 120 / 185: the grid loop's condition is false.
GridDone ==
    /\ pc = "grid" /\ ~GridDue
    /\ pc' = "loop"
    /\ UNCHANGED reportVars
    /\ UNCHANGED <<createdLog, deliveredLog, mode, fixedres, created, delivered,
                   created_last_timestamp, delivered_last_timestamp,
                   created_iter, delivered_iter, created_list, delivered_ids,
                   last_write, current_time, delivery, outfile, iters>>

\* A pop that leaves created as it is.
PopFrontKeepsCreated ==
    /\ created_list' = Tail(created_list)
    /\ created' = created
    /\ delivered' = IF created_list[1].id \in delivered_ids
                    THEN delivered - 1 ELSE delivered

\* popleft(); created -= 1; if id in delivered_ids: delivered -= 1
PopFront ==
    /\ created_list' = Tail(created_list)
    /\ created' = created - 1
    /\ delivered' = IF created_list[1].id \in delivered_ids
                    THEN delivered - 1 ELSE delivered

\* Lines 174-178: one pass of the pruning loop at current_time.
TtlPop ==
    /\ pc = "prune" /\ FrontExpired(current_time)
    /\ PopFront
    /\ UNCHANGED reportVars
    /\ UNCHANGED <<createdLog, deliveredLog, mode, fixedres, pc,
                   created_last_timestamp, delivered_last_timestamp,
                   created_iter, delivered_iter, delivered_ids,
                   last_write, current_time, delivery, outfile, iters>>

\* Lines 174, 179-183: pruning is over; compute the ratio and write the line.
TtlWrite ==
    /\ pc = "prune" /\ ~FrontExpired(current_time)
    /\ delivery' = GuardedRatio(delivered, created)
    /\ outfile' = Append(outfile, Sample(current_time, GuardedRatio(delivered, created)))
    /\ pc' = "loop"
    /\ UNCHANGED reportVars
    /\ UNCHANGED <<createdLog, deliveredLog, mode, fixedres, created, delivered,
                   created_last_timestamp, delivered_last_timestamp,
                   created_iter, delivered_iter, created_list, delivered_ids,
                   last_write, current_time, iters>>

\* Lines 185-186: the next grid point is due.
TtlGridAdvance ==
    /\ pc = "grid" /\ mode = "ttl" /\ GridDue
    /\ last_write' = last_write + fixedres
    /\ pc' = "gridprune"
    /\ UNCHANGED reportVars
    /\ UNCHANGED <<createdLog, deliveredLog, mode, fixedres, created, delivered,
                   created_last_timestamp, delivered_last_timestamp,
                   created_iter, delivered_iter, created_list, delivered_ids,
                   current_time, delivery, outfile, iters>>

\* Lines 187-191: one pass of the pruning loop at the grid point last_write.
TtlGridPop ==
    /\ pc = "gridprune" /\ FrontExpired(last_write)
    /\ PopFront
    /\ UNCHANGED reportVars
    /\ UNCHANGED <<createdLog, deliveredLog, mode, fixedres, pc,
                   created_last_timestamp, delivered_last_timestamp,
                   created_iter, delivered_iter, delivered_ids,
                   last_write, current_time, delivery, outfile, iters>>

\* Lines 187, 192-196: pruning is over; compute the ratio, write the grid line.
TtlGridWrite ==
    /\ pc = "gridprune" /\ ~FrontExpired(last_write)
    /\ delivery' = GuardedRatio(delivered, created)
    /\ outfile' = Append(outfile, Sample(last_write, GuardedRatio(delivered, created)))
    /\ pc' = "grid"
    /\ UNCHANGED reportVars
    /\ UNCHANGED <<createdLog, deliveredLog, mode, fixedres, created, delivered,
                   created_last_timestamp, delivered_last_timestamp,
                   created_iter, delivered_iter, created_list, delivered_ids,
                   last_write, current_time, iters>>

Next ==
    \/ MergeCreated
    \/ MergeDelivered
    \/ LoopExit
    \/ SimpleRatio
    \/ SimpleZeroDivision
    \/ SimpleWrite
    \/ SimpleGridWrite
    \/ GridDone
    \/ TtlPop
    \/ TtlWrite
    \/ TtlGridAdvance
    \/ TtlGridPop
    \/ TtlGridWrite

Spec == Init /\ [][Next]_vars

\* The function body is sequential code: a step that can be taken is taken.
FairSpec == Spec /\ WF_vars(Next)

\* ------------------------------------------------------- claims: helpers
\* The call is over: the loop condition was false, or an exception left it.
Ended == pc \in {"done", "error"}

\* Creation lines alive at time T: creation_time <= T < creation_time + ttl.
AliveAt(T) ==
    Cardinality({i \in 1..Len(createdLog) :
                    /\ createdLog[i].t <= T
                    /\ T < createdLog[i].t + createdLog[i].ttl * TtlFactor})

\* -------------------------------------------------------------------- C1
\* C1: in simple mode the counts grow with the cursors (created_count is the
\* number of creation lines counted so far, delivered_count the number of
\* delivery lines counted so far, so neither ever decreases), and when the
\* loop has ended created_count is the number of creation events and
\* delivered_count the number of delivery events.
C1_SimpleCountsEveryEvent ==
    mode = "simple" =>
        /\ created = CreatedCounted
        /\ delivered = DeliveredCounted
        /\ Ended => created = Len(createdLog) /\ delivered = Len(deliveredLog)

\* The part of C1 that every run satisfies, also a run the exception ends:
\* no step of the simple mode lowers a count.
C1_SimpleCountsMonotone ==
    [][mode = "simple" => created' >= created /\ delivered' >= delivered]_vars

\* -------------------------------------------------------------------- C2
\* C2: in TTL-aware mode every written sample (T, ratio) was computed from a
\* created_count equal to the number of creation events with
\* creation_time <= T < creation_time + ttl.
C2_CreatedCountIsAliveCount ==
    mode = "ttl" =>
        \A k \in 1..Len(outfile) : outfile[k].created = AliveAt(outfile[k].t)

\* -------------------------------------------------------------------- C3
\* C3: in TTL-aware mode delivered_count <= created_count in every state.
C3_DeliveredAtMostCreated ==
    mode = "ttl" => delivered <= created

\* -------------------------------------------------------------------- C4
\* C4: created_count and delivered_count are never negative, in either mode,
\* also after a pruning step.
C4_CountsNonNegative ==
    created >= 0 /\ delivered >= 0

\* -------------------------------------------------------------------- C5
\* C5: a ratio computed while created_count is 0 is the value 0 and the run
\* goes on, in both modes: no run ends in an error, and every sample computed
\* from created_count = 0 carries the ratio 0.
C5_ZeroDenominatorIsZero ==
    /\ pc # "error"
    /\ \A k \in 1..Len(outfile) :
           outfile[k].created = 0 => outfile[k].ratio = Zero

\* What the code does: the TTL-aware mode alone is guarded.
C5_TtlZeroDenominatorIsZero ==
    mode = "ttl" =>
        /\ pc # "error"
        /\ \A k \in 1..Len(outfile) :
               outfile[k].created = 0 => outfile[k].ratio = Zero


\* -------------------------------------------------------------------- C6
\* C6: with a resolution, a grid sample (g, r) is computed from events with
\* timestamp <= g only: none of the creation and delivery lines counted when
\* the sample is written carries a timestamp greater than g.
C6_GridSampleUsesNoLaterEvent ==
    fixedres # NoRes =>
        \A k \in 1..Len(outfile) :
            /\ \A i \in 1..outfile[k].nc : createdLog[i].t <= outfile[k].t
            /\ \A j \in 1..outfile[k].nd : deliveredLog[j].t <= outfile[k].t

\* What the code does: the event of the running iteration, whose timestamp
\* is greater than g, is already counted when g is written; every event
\* counted before it has a timestamp <= g.
LaterCounted(k) ==
    Cardinality({i \in 1..outfile[k].nc : createdLog[i].t > outfile[k].t})
    + Cardinality({j \in 1..outfile[k].nd : deliveredLog[j].t > outfile[k].t})

C6_GridSampleUsesOneLaterEvent ==
    fixedres # NoRes => \A k \in 1..Len(outfile) : LaterCounted(k) = 1

\* -------------------------------------------------------------------- C7
\* Timestamps of all event lines of the two logs.
EventTimes ==
    {createdLog[i].t : i \in 1..Len(createdLog)}
        \cup {deliveredLog[j].t : j \in 1..Len(deliveredLog)}

\* C7: with a resolution, the k-th written sample carries the timestamp
\* k * resolution (so the timestamps increase strictly, by exactly
\* resolution), and no written timestamp exceeds the maximum event timestamp.
C7_GridTimestamps ==
    fixedres # NoRes =>
        \A k \in 1..Len(outfile) :
            /\ outfile[k].t = k * fixedres
            /\ \E e \in EventTimes : outfile[k].t <= e

C7_Witness ==
    /\ fixedres # NoRes
    /\ Len(outfile) >= 2
    /\ pc = "done"

\* -------------------------------------------------------------------- C8
\* Number of written samples carrying the timestamp g.
TimesWritten(g) == Cardinality({k \in 1..Len(outfile) : outfile[k].t = g})

\* An event has been processed: its loop iteration has run to its end.
EventProcessed == iters > 0 /\ pc \in {"loop", "done"}

\* C8 as stated: after an event has been processed every grid point
\* k * resolution (k >= 1) that is <= current_time has been written exactly
\* once, a grid point equal to current_time included.
C8_GridFilledThroughCurrentTime ==
    (fixedres # NoRes /\ EventProcessed) =>
        \A k \in 1..(current_time \div fixedres) : TimesWritten(k * fixedres) = 1

\* C8 amended: after an event has been processed every grid point
\* k * resolution (k >= 1) that is < current_time has been written exactly
\* once and no grid point >= current_time has been written.
C8_GridFilledBelowCurrentTime ==
    (fixedres # NoRes /\ EventProcessed) =>
        /\ \A k \in 1..(current_time \div fixedres) :
               TimesWritten(k * fixedres) = IF k * fixedres < current_time THEN 1 ELSE 0
        /\ \A k \in 1..Len(outfile) : outfile[k].t < current_time

\* One event (the first of the run) has written several grid samples, and a
\* grid point equal to its timestamp is not among them.
C8_Witness ==
    /\ fixedres # NoRes
    /\ pc = "loop"
    /\ iters = 1
    /\ Len(outfile) >= 2
    /\ current_time = (Len(outfile) + 1) * fixedres

\* -------------------------------------------------------------------- C9
\* C9: a merge step advances the creation cursor when the creation head is
\* not greater than the delivery head (equal heads included) and the delivery
\* cursor otherwise; so every creation line carrying the timestamp of a
\* counted delivery line has been counted as well.
C9_TieBreakFavoursCreation ==
    /\ [][iters' = iters + 1 =>
            IF created_last_timestamp <= delivered_last_timestamp
            THEN /\ CreatedCounted' = CreatedCounted + 1
                 /\ DeliveredCounted' = DeliveredCounted
            ELSE /\ DeliveredCounted' = DeliveredCounted + 1
                 /\ CreatedCounted' = CreatedCounted]_vars
    /\ [](\A j \in 1..DeliveredCounted : \A i \in 1..Len(createdLog) :
              createdLog[i].t = deliveredLog[j].t => i <= CreatedCounted)

\* A delivery and a creation with one timestamp have both been counted.
C9_Witness ==
    \E j \in 1..DeliveredCounted : \E i \in 1..CreatedCounted :
        createdLog[i].t = deliveredLog[j].t

\* ------------------------------------------------------------------- C10
\* C10: every iteration sets current_time to the minimum of the two heads and
\* consumes exactly one line of exactly one log, and the loop is left exactly
\* when both heads are +infinity, after (creations + deliveries) iterations.
C10_IterationConsumesOneEvent ==
    [][iters' = iters + 1 =>
          /\ current_time' = Min(created_last_timestamp, delivered_last_timestamp)
          /\ CreatedCounted' >= CreatedCounted
          /\ DeliveredCounted' >= DeliveredCounted
          /\ CreatedCounted' + DeliveredCounted' = CreatedCounted + DeliveredCounted + 1]_vars

C10_LoopLeftWhenBothHeadsInf ==
    /\ iters = CreatedCounted + DeliveredCounted
    /\ Ended =>
          /\ created_last_timestamp = Inf
          /\ delivered_last_timestamp = Inf
          /\ iters = Len(createdLog) + Len(deliveredLog)

\* Every run ends (the loop is left or the exception ends the call).
C10_Terminates == <>Ended


\* ------------------------------------------------------- scenario runs
\* The logs of the spec's concrete scenario: creations at t=0 (A, ttl 10 min)
\* and t=5 (B, ttl 1 min), one delivery at t=4 (A).
ScenarioCreated ==
    <<[t |-> 0, id |-> "A", ttl |-> 10], [t |-> 5, id |-> "B", ttl |-> 1]>>

ScenarioDelivered == <<[t |-> 4, id |-> "A"]>>

\* The logs keeping some of the lines of log, in order.
SubLogs(log) ==
    {log} \cup {SubSeq(log, 1, 1), SubSeq(log, 2, Len(log)), <<>>}

\* Lines at t=70 that may follow the scenario's lines: a further creation, a
\* delivery of B.
LateCreated == {<<>>, <<[t |-> 70, id |-> "C", ttl |-> 1]>>}
LateDelivered == {<<>>, <<[t |-> 70, id |-> "B"]>>}

\* Resolution of the resampled scenario runs.
ScenarioRes == 2

\* Entry to the while loop on the scenario's logs, on logs that keep some of
\* their lines, and on these followed by a line at t=70.
ScenarioInit ==
    /\ createdLog \in {c \o l : c \in SubLogs(ScenarioCreated), l \in LateCreated}
    /\ deliveredLog \in {d \o l : d \in SubLogs(ScenarioDelivered), l \in LateDelivered}
    /\ mode \in {"simple", "ttl"}
    /\ fixedres \in {NoRes, ScenarioRes}
    /\ pc = "loop"
    /\ created = 0
    /\ delivered = 0
    /\ created_iter = IF Len(createdLog) > 0 THEN 1 ELSE 0
    /\ delivered_iter = IF Len(deliveredLog) > 0 THEN 1 ELSE 0
    /\ created_last_timestamp = HeadAfter(createdLog, 0)
    /\ delivered_last_timestamp = HeadAfter(deliveredLog, 0)
    /\ created_list = IF mode = "ttl" /\ Len(createdLog) > 0
                      THEN <<PendingEntry(createdLog[1])>> ELSE <<>>
    /\ delivered_ids = IF mode = "ttl" /\ Len(deliveredLog) > 0
                       THEN {deliveredLog[1].id} ELSE {}
    /\ last_write = 0
    /\ current_time = 0
    /\ delivery = Zero
    /\ outfile = <<>>
    /\ iters = 0
    /\ ReportsIdle

ScenarioSpec == ScenarioInit /\ [][Next]_vars

\* The "<t> <ratio>" lines of the output file.
Lines == [k \in 1..Len(outfile) |-> <<outfile[k].t, outfile[k].ratio>>]

\* ------------------------------------------------------------------- C11
\* C11: on the scenario's logs the unresampled simple mode writes exactly the
\* lines (0, 0), (4, 1), (5, 0.5), in this order.
C11_ScenarioSimpleLines ==
    (/\ mode = "simple" /\ fixedres = NoRes
     /\ createdLog = ScenarioCreated /\ deliveredLog = ScenarioDelivered) =>
        /\ pc # "error"
        /\ Lines = SubSeq(<<<<0, <<0, 1>>>>, <<4, <<1, 1>>>>, <<5, <<1, 2>>>>>>,
                          1, Len(outfile))
        /\ pc = "done" => Len(outfile) = 3

C11_Witness ==
    /\ mode = "simple" /\ fixedres = NoRes
    /\ createdLog = ScenarioCreated /\ deliveredLog = ScenarioDelivered
    /\ pc = "done"
    /\ Len(outfile) = 3

\* ------------------------------------------------------------------- C12
\* Ids of the entries of the pending queue.
PendingIds == {created_list[k].id : k \in 1..Len(created_list)}

\* The unresampled TTL-aware mode has just evaluated time 70 (pruned at
\* boundary 70 and written the line) on logs that begin with the scenario's.
EvaluatedAt70 ==
    /\ mode = "ttl" /\ fixedres = NoRes
    /\ pc = "loop" /\ current_time = 70
    /\ Len(createdLog) >= 2 /\ SubSeq(createdLog, 1, 2) = ScenarioCreated
    /\ Len(deliveredLog) >= 1 /\ SubSeq(deliveredLog, 1, 1) = ScenarioDelivered

\* C12: evaluated at time 70 on the scenario's logs, the TTL-aware mode has
\* pruned B (expiry 65) and not A (expiry 600); when the line that brings
\* time 70 is a delivery of B, so that A is the one live creation and the one
\* delivery that still counts, created_count = 1, delivered_count = 1 and the
\* ratio is 1.
C12_ScenarioTtlAt70 ==
    EvaluatedAt70 =>
        /\ "B" \notin PendingIds
        /\ "A" \in PendingIds
        /\ createdLog = ScenarioCreated =>
              /\ created = 1
              /\ delivered = 1
              /\ delivery = <<1, 1>>


\* ------------------------------------------------------------------- C13
\* Creation lines whose entry has been popped: entries are appended in file
\* order and popped from the front, so these are the first lines read.
Popped == created_iter - Len(created_list)

PoppedIds == {createdLog[i].id : i \in 1..Popped}

\* A delivery of message id has been counted.
DeliveryCounted(id) == \E j \in 1..DeliveredCounted : deliveredLog[j].id = id

\* The TTL-aware mode has just written a line.
TtlLineWritten ==
    /\ mode = "ttl"
    /\ Len(outfile) > 0
    /\ \/ fixedres = NoRes /\ pc = "loop"
       \/ fixedres # NoRes /\ pc = "grid" /\ outfile[Len(outfile)].t = last_write

\* C13: a pop decrements delivered_count exactly when a delivery of the
\* popped id has been counted, and at every written line delivered_count is
\* the number of counted delivery lines whose message has not been popped.
C13_PrunedMessagesLeaveBothCounts ==
    /\ [][(mode = "ttl" /\ Len(created_list') < Len(created_list)) =>
             delivered' = IF DeliveryCounted(created_list[1].id)
                          THEN delivered - 1 ELSE delivered]_vars
    /\ [](TtlLineWritten =>
             delivered = Cardinality({j \in 1..DeliveredCounted :
                                         deliveredLog[j].id \notin PoppedIds}))

\* ------------------------------------------------------------------- C14
\* The pruning loop at boundary b has just ended.
PrunedAt(b) ==
    /\ mode = "ttl"
    /\ \/ fixedres = NoRes /\ pc = "loop" /\ iters > 0 /\ b = current_time
       \/ fixedres # NoRes /\ pc = "grid" /\ last_write > 0 /\ b = last_write

\* Boundaries the model's runs prune at.
Boundaries == Times \cup {k * r : k \in 1..3, r \in Resolutions}

\* C14: after pruning at boundary b no entry with expiry < b is left in the
\* queue, and every entry read so far with expiry >= b (expiry = b included)
\* is still in it.
C14_PruningRemovesAllExpired ==
    \A b \in Boundaries : PrunedAt(b) =>
        /\ \A k \in 1..Len(created_list) : created_list[k].expiry >= b
        /\ \A i \in 1..Popped : PendingEntry(createdLog[i]).expiry < b

\* What the code does: it pops from the front only, so after pruning the
\* front entry has expiry >= b and every popped entry had expiry < b; an
\* entry with expiry < b can stay behind a front entry that expires later.
C14_PruningStopsAtLiveFront ==
    \A b \in Boundaries : PrunedAt(b) =>
        /\ Len(created_list) > 0 => created_list[1].expiry >= b
        /\ \A i \in 1..Popped : PendingEntry(createdLog[i]).expiry < b

\* =================================================== group_from_hostname
\* The characters a hostname of the model is made of: a lower-case letter,
\* an upper-case letter, a digit, and a character that is neither.
HostChars == {"g", "V", "4", "-"}
\* Longest hostname.
MaxHostLen == 3

\* The digits and letters in ASCII order; Ord is the order str compares by.
AsciiOrder ==
    <<"0", "1", "2", "3", "4", "5", "6", "7", "8", "9",
      "A", "B", "C", "D", "E", "F", "G", "H", "I", "J", "K", "L", "M",
      "N", "O", "P", "Q", "R", "S", "T", "U", "V", "W", "X", "Y", "Z",
      "a", "b", "c", "d", "e", "f", "g", "h", "i", "j", "k", "l", "m",
      "n", "o", "p", "q", "r", "s", "t", "u", "v", "w", "x", "y", "z">>
Ord(c) == CHOOSE i \in 1..Len(AsciiOrder) : AsciiOrder[i] = c
\* [0-9]
Digits == {AsciiOrder[i] : i \in 1..10}
\* [a-z] under re.I
Letters == {AsciiOrder[i] : i \in 11..Len(AsciiOrder)}

Max(S) == CHOOSE m \in S : \A x \in S : x <= m

\* Lengths k such that h[from .. from+k-1] matches [a-z]+ and a digit follows
\* (the first character of [0-9]+; group 1 does not depend on the rest).
LetterRunsBeforeDigit(h, from) ==
    {k \in 1..(Len(h) - from) :
        /\ \A i \in from..(from + k - 1) : h[i] \in Letters
        /\ h[from + k] \in Digits}

\* re.search in place of re.match: the pattern may match at any position.
group_from_hostname_search(h) ==
    LET starts == {f \in 1..Len(h) : LetterRunsBeforeDigit(h, f) # {}}
    IN  IF starts = {} THEN None
        ELSE LET f == CHOOSE x \in starts : \A y \in starts : x <= y
             IN  SubSeq(h, f, f + Max(LetterRunsBeforeDigit(h, f)) - 1)

\* re.match(r"([a-z]+)([0-9]+)", hostname, re.I): anchored at the start of
\* the string, + is greedy; match.groups()[0], or None without a match.
group_from_hostname(h) ==
    IF LetterRunsBeforeDigit(h, 1) = {} THEN None
    ELSE SubSeq(h, 1, Max(LetterRunsBeforeDigit(h, 1)))

Gov42 == <<"g", "o", "v", "4", "2">>
SevenX == <<"7", "x">>

HostNames == UNION {[1..n -> HostChars] : n \in 0..MaxHostLen}

HostInit ==
    /\ mode = "group"
    /\ pc = "call"
    /\ hostname \in HostNames \cup {Gov42, SevenX}
    /\ group = None
    /\ createdLog = <<>> /\ deliveredLog = <<>> /\ outfile = <<>>
    /\ SeriesIdle /\ FilterIdle
    /\ MatrixIdle /\ DelayIdle /\ EncountersIdle /\ AverageIdle

\* Lines 12-17.
GroupFromHostname ==
    /\ mode = "group" /\ pc = "call"
    /\ group' = group_from_hostname(hostname)
    /\ pc' = "return"
    /\ UNCHANGED <<createdLog, deliveredLog, mode, outfile, seriesLocals, filterVars,
                   hostname, pdr, delays, encounters, unique_encounters_count,
                   averageVars>>

HostNext == GroupFromHostname

HostSpec == HostInit /\ [][HostNext]_vars

\* The longest prefix of h made of letters only.
LeadingLetters(h) ==
    SubSeq(h, 1, Cardinality({n \in 1..Len(h) : \A i \in 1..n : h[i] \in Letters}))

\* ------------------------------------------------------------------- C17
\* C17: group_from_hostname returns a value for every hostname: the maximal
\* leading run of letters of either case when that run is not empty and a
\* digit follows it, and None otherwise; "gov42" gives "gov", "7x" gives None.
C17_GroupIsLeadingLetters ==
    (mode = "group" /\ pc # "call") =>
        /\ pc = "return"
        /\ LET run == LeadingLetters(hostname)
           IN  group = IF /\ run # <<>>
                          /\ Len(run) < Len(hostname)
                          /\ hostname[Len(run) + 1] \in Digits
                       THEN run ELSE None
        /\ hostname = Gov42 => group = <<"g", "o", "v">>
        /\ hostname = SevenX => group = None

\* A mixed-case run followed by a digit has been grouped, case kept.
C17_Witness ==
    /\ mode = "group" /\ pc = "return"
    /\ hostname = <<"g", "V", "4">>
    /\ group = <<"g", "V">>

\* A hostname whose letters do not start it has no group.
C17_WitnessNone ==
    /\ mode = "group" /\ pc = "return"
    /\ hostname = <<"-", "g", "4">>
    /\ group = None

\* =============================================== generate_delivery_matrix
\* Hostnames of the logs: groups "g", "V" and None.
MatrixHosts == {<<"g", "4">>, <<"V", "4">>, <<"4", "g">>}

\* A line of the creation log: [3]=source host, [4]=destination host.
MatrixCreatedLine == [src : MatrixHosts, dst : MatrixHosts]
\* A line of the delivery log: [1]=message id, [5]=source host,
\* [6]=destination host.
MatrixDeliveredLine == [id : Ids, src : MatrixHosts, dst : MatrixHosts]

\* The logs of n lines.
Logs(Line, n) == [1..n -> Line]

\* pair = (group_from_hostname(source), group_from_hostname(destination))
Pair(line) == <<group_from_hostname(line.src), group_from_hostname(line.dst)>>

\* The defaultdict(int) after "counts[pair] += 1" for the first n lines.
RECURSIVE CountPairs(_, _)
CountPairs(log, n) ==
    IF n = 0 THEN <<>>
    ELSE LET counts == CountPairs(log, n - 1)
             pair == Pair(log[n])
         IN  IF pair \in DOMAIN counts
             THEN [counts EXCEPT ![pair] = @ + 1]
             ELSE (pair :> 1) @@ counts

\* The loop over the pairs of both dictionaries: a pair without a creation
\* gets the ratio 0.
PdrOfAllPairs(c, d) ==
    [pair \in DOMAIN c \cup DOMAIN d |->
        IF pair \in DOMAIN c /\ pair \in DOMAIN d
        THEN Fraction(d[pair], c[pair]) ELSE Zero]

\* for pair, count in created.iteritems(): pdr[pair] = ...
Pdr(c, d) ==
    [pair \in DOMAIN c |->
        IF pair \in DOMAIN d THEN Fraction(d[pair], c[pair]) ELSE Zero]

\* a < b for two strings.
RECURSIVE StrLess(_, _)
StrLess(a, b) ==
    IF b = <<>> THEN FALSE
    ELSE IF a = <<>> THEN TRUE
    ELSE IF a[1] = b[1] THEN StrLess(Tail(a), Tail(b))
    ELSE Ord(a[1]) < Ord(b[1])

\* a < b for two groups: Python 2 orders None before every string.
GroupLess(a, b) ==
    IF a = None THEN b # None
    ELSE IF b = None THEN FALSE
    ELSE StrLess(a, b)

\* p < q for two pairs of groups.
PairLess(p, q) ==
    GroupLess(p[1], q[1]) \/ (p[1] = q[1] /\ GroupLess(p[2], q[2]))

\* sorted(pdr.items()), as the lines "<source> <destination> <ratio>".
RECURSIVE SortedItems(_, _)
SortedItems(d, keys) ==
    IF keys = {} THEN <<>>
    ELSE LET first == CHOOSE p \in keys : \A q \in keys \ {p} : PairLess(p, q)
         IN  <<[src |-> first[1], dst |-> first[2], ratio |-> d[first]]>>
             \o SortedItems(d, keys \ {first})

MatrixInit ==
    /\ mode = "matrix"
    /\ pc = "call"
    /\ createdLog \in UNION {Logs(MatrixCreatedLine, n) : n \in 0..MaxEvents}
    /\ deliveredLog \in UNION {Logs(MatrixDeliveredLine, n) :
                                 n \in 0..(MaxEvents - Len(createdLog))}
    /\ pdr = None
    /\ outfile = <<>>
    /\ SeriesIdle /\ FilterIdle
    /\ HostIdle /\ DelayIdle /\ EncountersIdle /\ AverageIdle

\* Lines 20-47.
GenerateDeliveryMatrix ==
    /\ mode = "matrix" /\ pc = "call"
    /\ LET created_ == CountPairs(createdLog, Len(createdLog))
           delivered_ == CountPairs(deliveredLog, Len(deliveredLog))
       IN  /\ pdr' = Pdr(created_, delivered_)
           /\ outfile' = SortedItems(pdr', DOMAIN pdr')
    /\ pc' = "return"
    /\ UNCHANGED <<createdLog, deliveredLog, mode, seriesLocals, filterVars, hostVars,
                   delays, encounters, unique_encounters_count, averageVars>>

MatrixNext == GenerateDeliveryMatrix

MatrixSpec == MatrixInit /\ [][MatrixNext]_vars

\* The lines of log whose hosts are of the groups of pair.
LinesOfPair(log, pair) == {i \in 1..Len(log) : Pair(log[i]) = pair}

\* ------------------------------------------------------------------- C15
\* C15: the delivery matrix has exactly one entry for each pair of groups
\* with a creation line and none for any other pair; the value of an entry is
\* the number of delivery lines of the pair over the number of its creation
\* lines, and no division by zero occurs.
C15_MatrixKeysAndRatios ==
    (mode = "matrix" /\ pc # "call") =>
        /\ pc = "return"
        /\ DOMAIN pdr = {Pair(createdLog[i]) : i \in 1..Len(createdLog)}
        /\ \A pair \in DOMAIN pdr :
              /\ Cardinality(LinesOfPair(createdLog, pair)) > 0
              /\ pdr[pair] = Fraction(Cardinality(LinesOfPair(deliveredLog, pair)),
                                      Cardinality(LinesOfPair(createdLog, pair)))
        /\ Len(outfile) = Cardinality(DOMAIN pdr)
        /\ \A pair \in DOMAIN pdr :
              \E k \in 1..Len(outfile) :
                 outfile[k] = [src |-> pair[1], dst |-> pair[2], ratio |-> pdr[pair]]

\* A pair with a creation and a delivery has its ratio; a pair with a
\* delivery only is left out.
C15_Witness ==
    /\ mode = "matrix" /\ pc = "return"
    /\ Len(createdLog) = 1 /\ Len(deliveredLog) = 2
    /\ Pair(deliveredLog[1]) = Pair(createdLog[1])
    /\ Pair(deliveredLog[2]) # Pair(createdLog[1])
    /\ pdr = (Pair(createdLog[1]) :> <<1, 1>>)
    /\ Len(outfile) = 1

\* ========================================================= generate_delay
\* Last hop of the path field of a delivery line (fields[-1].split('->')[-1]).
Hops == {"h1", "h2"}
\* Timestamps of the lines.
DelayTimes == {0, 30}

\* A line of the creation log: [0]=timestamp, [1]=message id.
DelayCreatedLine == [t : DelayTimes, id : Ids]
\* A line of the delivery log: [0]=timestamp, [1]=message id, [-1]=path.
DelayDeliveredLine == [t : DelayTimes, id : Ids, hop : Hops]

\* created after the loop over the creation log: id -> t_sent of its last line.
CreatedTimes(log) ==
    [id \in {log[i].id : i \in 1..Len(log)} |->
        log[Max({i \in 1..Len(log) : log[i].id = id})].t]

\* The first n delivery lines are processed: delivered (in file order),
\* unique_deliveries, and whether created[m_id] or unique_deliveries[m_id]
\* raised KeyError.
RECURSIVE DelayLoop(_, _, _)
DelayLoop(sent, log, n) ==
    IF n = 0
    THEN [delivered |-> <<>>,
          unique_deliveries |-> [id \in DOMAIN sent |-> {}],
          error |-> FALSE]
    ELSE LET before == DelayLoop(sent, log, n - 1)
             line == log[n]
         IN  IF before.error THEN before
             ELSE IF line.id \notin DOMAIN sent
                  THEN [before EXCEPT !.error = TRUE]
             ELSE IF line.hop \in before.unique_deliveries[line.id]
                  THEN before
             ELSE [delivered |-> Append(before.delivered, line.t - sent[line.id]),
                   unique_deliveries |->
                       [before.unique_deliveries EXCEPT ![line.id] = @ \cup {line.hop}],
                   error |-> FALSE]

\* delivered.sort()
RECURSIVE SortedInts(_)
SortedInts(seq) ==
    IF seq = <<>> THEN <<>>
    ELSE LET k == CHOOSE i \in 1..Len(seq) : \A j \in 1..Len(seq) : seq[i] <= seq[j]
         IN  <<seq[k]>> \o SortedInts(SubSeq(seq, 1, k - 1) \o SubSeq(seq, k + 1, Len(seq)))

DelayInit ==
    /\ mode = "delay"
    /\ pc = "call"
    /\ createdLog \in UNION {Logs(DelayCreatedLine, n) : n \in 0..MaxEvents}
    /\ deliveredLog \in UNION {Logs(DelayDeliveredLine, n) :
                                 n \in 0..(MaxEvents - Len(createdLog))}
    /\ delays = None
    /\ outfile = <<>>
    /\ SeriesIdle /\ FilterIdle
    /\ HostIdle /\ MatrixIdle /\ EncountersIdle /\ AverageIdle

\* Lines 16-40: return len(created), delivered.
GenerateDelay ==
    /\ mode = "delay" /\ pc = "call"
    /\ LET sent == CreatedTimes(createdLog)
           loop == DelayLoop(sent, deliveredLog, Len(deliveredLog))
       IN  /\ ~loop.error
           /\ delays' = [created |-> Cardinality(DOMAIN sent),
                         delivered |-> SortedInts(loop.delivered)]
    /\ pc' = "return"
    /\ UNCHANGED <<createdLog, deliveredLog, mode, outfile, seriesLocals, filterVars,
                   hostVars, pdr, encounters, unique_encounters_count,
                   averageVars>>

\* Lines 32, 36: a delivery of a message without a creation line is a KeyError.
GenerateDelayKeyError ==
    /\ mode = "delay" /\ pc = "call"
    /\ DelayLoop(CreatedTimes(createdLog), deliveredLog, Len(deliveredLog)).error
    /\ pc' = "error"
    /\ UNCHANGED <<createdLog, deliveredLog, mode, outfile, seriesLocals,
                   reportVars>>

DelayNext == GenerateDelay \/ GenerateDelayKeyError

DelaySpec == DelayInit /\ [][DelayNext]_vars

\* ------------------------------------------------------------------- C16
\* The streamers read the message id of a delivery line and no destination: a
\* message has one destination, so lines with the same id are deliveries of
\* the same message to the same destination.
C16_StreamerCountsOnce ==
    mode \in {"simple", "ttl"} =>
        delivered <= Cardinality({deliveredLog[j].id : j \in 1..DeliveredCounted})

\* The delivery lines of a pair count once for each message id and destination.
C16_MatrixCountsOnce ==
    (mode = "matrix" /\ pc = "return") =>
        \A pair \in DOMAIN pdr :
            LET messages == {<<deliveredLog[j].id, deliveredLog[j].dst>> :
                                j \in LinesOfPair(deliveredLog, pair)}
                count == Cardinality(LinesOfPair(createdLog, pair))
            IN  pdr[pair][1] * count <= Cardinality(messages) * pdr[pair][2]

\* The last hop of the path of a delivery line is the node the message was
\* delivered to.
C16_DelayCountsOnce ==
    (mode = "delay" /\ pc = "return") =>
        Len(delays.delivered) =
            Cardinality({<<deliveredLog[j].id, deliveredLog[j].hop>> :
                            j \in 1..Len(deliveredLog)})

\* C16: a message id is counted as delivered at most once per destination:
\* several delivery lines with the same message id and the same destination
\* add one to the delivered count of the streamers, to the delivery count of
\* their pair in the matrix and to the delay list of generate_delay.
C16_DeliveredOncePerDestination ==
    /\ C16_StreamerCountsOnce
    /\ C16_MatrixCountsOnce
    /\ C16_DelayCountsOnce

\* ================================================ read_unique_encounters
\* Most rows of an encounters report.
MaxRows == 3
\* Node ids, total and unique encounter counts of the rows.
Nodes == {0, 1, 5}
TotalEncounters == {2, 7}
UniqueEncounters == {0, 1, 2}

\* (node, encounters, unique_encounters) = line.split()
EncounterRow ==
    [node : Nodes, encounters : TotalEncounters, unique_encounters : UniqueEncounters]

\* Lines 10-15: the dictionary after one more row.
CountRow(counts, row) ==
    LET withNode == IF row.node \in DOMAIN counts THEN counts
                    ELSE (row.node :> 0) @@ counts
    IN  IF row.unique_encounters \in DOMAIN withNode
        THEN [withNode EXCEPT ![row.unique_encounters] = @ + 1]
        ELSE (row.unique_encounters :> 1) @@ withNode

\* unique_encounters_count after the first n rows.
RECURSIVE ReadUniqueEncounters(_, _)
ReadUniqueEncounters(rows, n) ==
    IF n = 0 THEN <<>>
    ELSE CountRow(ReadUniqueEncounters(rows, n - 1), rows[n])

\* for key in sorted(unique_encounters_count.keys()): "<key> <count>"
RECURSIVE WriteUniqueEncounters(_, _)
WriteUniqueEncounters(counts, keys) ==
    IF keys = {} THEN <<>>
    ELSE LET key == CHOOSE k \in keys : \A x \in keys : k <= x
         IN  <<[key |-> key, count |-> counts[key]]>>
             \o WriteUniqueEncounters(counts, keys \ {key})

EncountersInit ==
    /\ mode = "encounters"
    /\ pc = "call"
    /\ encounters \in UNION {[1..n -> EncounterRow] : n \in 0..MaxRows}
    /\ unique_encounters_count = None
    /\ createdLog = <<>> /\ deliveredLog = <<>> /\ outfile = <<>>
    /\ SeriesIdle /\ FilterIdle
    /\ HostIdle /\ MatrixIdle /\ DelayIdle /\ AverageIdle

\* Lines 25-28: write_unique_encounters(..., read_unique_encounters(...)).
GenerateUniqueEncounters ==
    /\ mode = "encounters" /\ pc = "call"
    /\ unique_encounters_count' = ReadUniqueEncounters(encounters, Len(encounters))
    /\ outfile' = WriteUniqueEncounters(unique_encounters_count',
                                        DOMAIN unique_encounters_count')
    /\ pc' = "return"
    /\ UNCHANGED <<createdLog, deliveredLog, mode, seriesLocals, filterVars, hostVars, pdr,
                   delays, encounters, averageVars>>

EncountersNext == GenerateUniqueEncounters

EncountersSpec == EncountersInit /\ [][EncountersNext]_vars

\* The rows whose unique_encounters field is u.
RowsWith(u) == {i \in 1..Len(encounters) : encounters[i].unique_encounters = u}

RECURSIVE SumOf(_, _)
SumOf(counts, keys) ==
    IF keys = {} THEN 0
    ELSE LET k == CHOOSE x \in keys : TRUE
         IN  counts[k] + SumOf(counts, keys \ {k})

\* ------------------------------------------------------------------- C18
\* C18: the dictionary read_unique_encounters returns has exactly the
\* unique_encounters values of the rows as its keys (node ids and total
\* encounter counts add none), maps each key to the number of rows with that
\* unique_encounters value, and its values sum to the number of rows.
C18_HistogramOverUniqueEncounters ==
    (mode = "encounters" /\ pc = "return") =>
        /\ DOMAIN unique_encounters_count =
              {encounters[i].unique_encounters : i \in 1..Len(encounters)}
        /\ \A u \in DOMAIN unique_encounters_count :
              unique_encounters_count[u] = Cardinality(RowsWith(u))
        /\ SumOf(unique_encounters_count, DOMAIN unique_encounters_count)
              = Len(encounters)

\* What does hold: every key counts the rows with that unique_encounters
\* value (0 for a key that is only a node id), and the values sum to the
\* number of rows.
C18_CountsAndSum ==
    (mode = "encounters" /\ pc = "return") =>
        /\ {encounters[i].unique_encounters : i \in 1..Len(encounters)}
              \subseteq DOMAIN unique_encounters_count
        /\ DOMAIN unique_encounters_count \subseteq
              {encounters[i].unique_encounters : i \in 1..Len(encounters)}
              \cup {encounters[i].node : i \in 1..Len(encounters)}
        /\ \A u \in DOMAIN unique_encounters_count :
              unique_encounters_count[u] = Cardinality(RowsWith(u))
        /\ SumOf(unique_encounters_count, DOMAIN unique_encounters_count)
              = Len(encounters)

\* =========================================================== average_vals
\* Most input files of one call, and most lines over all of them.
MaxFiles == 2
MaxLines == 3
\* Most copies of one file in one call.
MaxCopies == 3
\* Values of maxcols other than None.
Caps == {1}

\* A field of a line: the text of a number, or a text float() rejects.
Num(n) == [kind |-> "num", n |-> n, w |-> ""]
Word(w) == [kind |-> "word", n |-> 0, w |-> w]

\* An element of accum or avg: a float (as a fraction) or a str.
Float(f) == [kind |-> "float", val |-> f, w |-> ""]
Str(w) == [kind |-> "str", val |-> Zero, w |-> w]

\* Lines "<key>" and "<key> <value>": the key is a time or a group name.
Keys == {Num(0), Word("x")}
Values == {Num(10), Num(30)}
Rows == {<<k>> : k \in Keys} \cup {<<k, v>> : k \in Keys, v \in Values}
NumericRows == {r \in Rows : \A c \in 1..Len(r) : r[c].kind = "num"}

\* The files of n lines.
Files(Row, n) == [1..n -> Row]

\* The lists of n files holding at most lines lines together.
RECURSIVE FileLists(_, _)
FileLists(n, lines) ==
    IF n = 0 THEN {<<>>}
    ELSE UNION {{<<f>> \o rest : rest \in FileLists(n - 1, lines - Len(f))} :
                  f \in UNION {Files(Rows, l) : l \in 0..lines}}

\* n copies of the file f.
Copies(f, n) == [k \in 1..n |-> f]

\* The files ["0 10", "1 20"] and ["0 30"].
TwoLengths ==
    << <<<<Num(0), Num(10)>>, <<Num(1), Num(20)>>>>, <<<<Num(0), Num(30)>>>> >>

\* The files ["0 10"] and ["1 30"]: the same line number, different keys.
TwoKeys == << <<<<Num(0), Num(10)>>>>, <<<<Num(1), Num(30)>>>> >>

\* float(fields[i]) of the text of a number.
ToFloat(field) == Fraction(field.n, 1)

\* a + b for two floats.
FloatAdd(a, b) == Fraction(a[1] * b[2] + b[1] * a[2], a[2] * b[2])

\* try_divide returning n whatever its type: nothing is divided.
try_divide_passthrough(n, d) == n

\* try_divide(n, d): n / d, or n when n is a str (TypeError).
try_divide(n, d) ==
    IF n.kind = "str" THEN n ELSE Float(Fraction(n.val[1], n.val[2] * d))

\* except StopIteration: active -= 1
ActiveAfterStop(active) == active - 1

\* if maxcols is None: cols = len(fields)  else: cols = min(len(fields), maxcols)
Cols(fields) ==
    IF maxcols = NoCap THEN Len(fields) ELSE Min(Len(fields), maxcols)

\* The warning leaving warncount as it is.
WarncountKept(w) == w

\* warncount -= warncount
WarncountAfterWarning(w) == w - w

\* Lines 52-58 for column i (i - 1 in the code) of fields.  accum[i] is read
\* before float(fields[i]) is evaluated: IndexError comes first.
ColStep(st, fields, i) ==
    IF i > Len(st.accum) THEN [st EXCEPT !.error = "IndexError"]
    ELSE IF fields[i].kind = "num"
         THEN IF st.accum[i].kind = "str"
              THEN [st EXCEPT !.error = "TypeError"]
              ELSE [st EXCEPT !.accum[i] =
                                 Float(FloatAdd(@.val, ToFloat(fields[i])))]
    ELSE [st EXCEPT !.accum[i] = Str(fields[i].w),
                    !.stdout = IF st.warncount > 0 THEN @ + 1 ELSE @,
                    !.warncount = IF st.warncount > 0
                                  THEN WarncountAfterWarning(@) ELSE @]

\* for i in range(cols), from column i on.
RECURSIVE ColLoop(_, _, _, _)
ColLoop(st, fields, cols, i) ==
    IF i > cols \/ st.error # "none" THEN st
    ELSE ColLoop(ColStep(st, fields, i), fields, cols, i + 1)

\* Lines 43-60 for iterator k.  accum is None while started is FALSE.
FileStep(st, k) ==
    IF st.iterators[k] >= Len(infiles[k])
    THEN [st EXCEPT !.active = ActiveAfterStop(@)]
    ELSE LET fields == infiles[k][st.iterators[k] + 1]
             cols == Cols(fields)
             read == [st EXCEPT !.iterators[k] = @ + 1,
                                !.started = TRUE,
                                !.accum = IF st.started THEN @
                                          ELSE [c \in 1..cols |-> Float(Zero)]]
         IN  ColLoop(read, fields, cols, 1)

\* for it in iterators, from iterator k on.
RECURSIVE FileLoop(_, _)
FileLoop(st, k) ==
    IF k > Len(infiles) \/ st.error # "none" THEN st
    ELSE FileLoop(FileStep(st, k), k + 1)

\* Lines 40-60: one pass of the while loop up to the test of active.
Round ==
    FileLoop([started |-> FALSE, accum |-> <<>>, active |-> Len(iterators),
              warncount |-> warncount, stdout |-> stdout,
              iterators |-> iterators, error |-> "none"], 1)

\* The sums divided by the number of input files: a file at end-of-file
\* counts as a line of zeros.
AvgOverAllFiles(accum, active) ==
    [c \in 1..Len(accum) |-> try_divide(accum[c], Len(iterators))]

\* avg = [try_divide(s, active) for s in accum]
Avg(accum, active) == [c \in 1..Len(accum) |-> try_divide(accum[c], active)]

AverageInit ==
    /\ mode = "average"
    /\ pc = "open"
    /\ infiles \in UNION {FileLists(n, MaxLines) : n \in 0..MaxFiles}
                   \cup {Copies(f, n) : f \in UNION {Files(NumericRows, l) : l \in 0..2},
                                        n \in 1..MaxCopies}
                   \cup {TwoLengths, TwoKeys}
    /\ maxcols \in {NoCap} \cup Caps
    /\ ioerrors \in {{}} \cup {{k} : k \in 0..Len(infiles)}
    /\ iterators = [k \in 1..Len(infiles) |-> 0]
    /\ warncount = FirstWarncount
    /\ stdout = 0
    /\ handles = {}
    /\ createdLog = <<>> /\ deliveredLog = <<>> /\ outfile = <<>>
    /\ SeriesIdle /\ FilterIdle
    /\ HostIdle /\ MatrixIdle /\ DelayIdle /\ EncountersIdle

\* Lines 35-38: every input file and the output file are opened.
AverageOpen ==
    /\ mode = "average" /\ pc = "open"
    /\ ioerrors = {}
    /\ handles' = 1..Len(infiles)
    /\ pc' = "round"
    /\ UNCHANGED <<createdLog, deliveredLog, mode, outfile, seriesLocals, filterVars,
                   hostVars, pdr, delays, encounters, unique_encounters_count,
                   infiles, maxcols, iterators, warncount, stdout, ioerrors>>

\* Lines 35, 38: open() raises IOError; the input files opened before are
\* not closed by the function.
AverageOpenFails ==
    /\ mode = "average" /\ pc = "open"
    /\ ioerrors # {}
    /\ LET failed == CHOOSE k \in ioerrors : TRUE
       IN  handles' = IF failed = 0 THEN 1..Len(infiles) ELSE 1..(failed - 1)
    /\ pc' = "error"
    /\ UNCHANGED <<createdLog, deliveredLog, mode, outfile, seriesLocals, filterVars,
                   hostVars, pdr, delays, encounters, unique_encounters_count,
                   infiles, maxcols, iterators, warncount, stdout, ioerrors>>

\* Lines 39-66: a pass of the loop that writes a line.
AverageRound ==
    /\ mode = "average" /\ pc = "round"
    /\ LET st == Round
       IN  /\ st.error = "none" /\ st.active # 0
           /\ outfile' = Append(outfile, Avg(st.accum, st.active))
           /\ iterators' = st.iterators
           /\ warncount' = st.warncount
           /\ stdout' = st.stdout
    /\ UNCHANGED <<createdLog, deliveredLog, mode, pc, seriesLocals, filterVars,
                   hostVars, pdr, delays, encounters, unique_encounters_count,
                   infiles, maxcols, handles, ioerrors>>

\* Line 53: IndexError or TypeError leaves the function; lines 68-69 are
\* not reached.
AverageRoundError ==
    /\ mode = "average" /\ pc = "round"
    /\ LET st == Round
       IN  /\ st.error # "none"
           /\ iterators' = st.iterators
           /\ warncount' = st.warncount
           /\ stdout' = st.stdout
    /\ pc' = "error"
    /\ UNCHANGED <<createdLog, deliveredLog, mode, outfile, seriesLocals, filterVars,
                   hostVars, pdr, delays, encounters, unique_encounters_count,
                   infiles, maxcols, handles, ioerrors>>

\* Lines 61-62, 68-69: no cursor yielded a line; the handles are closed.
AverageBreak ==
    /\ mode = "average" /\ pc = "round"
    /\ LET st == Round
       IN  st.error = "none" /\ st.active = 0
    /\ handles' = {}
    /\ pc' = "done"
    /\ UNCHANGED <<createdLog, deliveredLog, mode, outfile, seriesLocals, filterVars,
                   hostVars, pdr, delays, encounters, unique_encounters_count,
                   infiles, maxcols, iterators, warncount, stdout, ioerrors>>

AverageNext ==
    \/ AverageOpen
    \/ AverageOpenFails
    \/ AverageRound
    \/ AverageRoundError
    \/ AverageBreak

AverageSpec == AverageInit /\ [][AverageNext]_vars

\* ------------------------------------------------------- claims: helpers
\* Every field of every input file is the text of a number.
AllNumeric ==
    \A k \in 1..Len(infiles) : \A r \in 1..Len(infiles[k]) :
        \A c \in 1..Len(infiles[k][r]) : infiles[k][r][c].kind = "num"

\* The call is one without maxcols whose files can all be opened.
PlainCall == mode = "average" /\ maxcols = NoCap /\ ioerrors = {}

\* ------------------------------------------------------------------- C19
\* C19: average_vals on N >= 1 copies of one all-numeric file ends without
\* an error and writes as many rows as the file has, each with the values of
\* the file's row, column by column.
C19_SelfAverageIsIdentity ==
    (/\ PlainCall /\ AllNumeric
     /\ Len(infiles) >= 1
     /\ \A k \in 1..Len(infiles) : infiles[k] = infiles[1]) =>
        /\ pc # "error"
        /\ pc = "done" =>
              /\ Len(outfile) = Len(infiles[1])
              /\ \A r \in 1..Len(outfile) :
                    /\ Len(outfile[r]) = Len(infiles[1][r])
                    /\ \A c \in 1..Len(outfile[r]) :
                          outfile[r][c] = Float(<<infiles[1][r][c].n, 1>>)

\* Three copies of a file of two lines of two columns have been averaged.
C19_Witness ==
    /\ PlainCall /\ pc = "done"
    /\ infiles = Copies(<<<<Num(0), Num(10)>>, <<Num(0), Num(30)>>>>, 3)
    /\ outfile = << <<Float(<<0, 1>>), Float(<<10, 1>>)>>,
                    <<Float(<<0, 1>>), Float(<<30, 1>>)>> >>

\* The files that have a line r.
ActiveAt(r) == {k \in 1..Len(infiles) : Len(infiles[k]) >= r}

RECURSIVE ColumnSum(_, _, _)
ColumnSum(files, r, c) ==
    IF files = {} THEN 0
    ELSE LET k == CHOOSE x \in files : TRUE
         IN  infiles[k][r][c].n + ColumnSum(files \ {k}, r, c)

\* Length of the longest input file.
Longest == IF infiles = <<>> THEN 0 ELSE Max({Len(infiles[k]) : k \in 1..Len(infiles)})

SameWidthRounds ==
    \A j, k \in 1..Len(infiles) :
        \A r \in 1..Min(Len(infiles[j]), Len(infiles[k])) :
            Len(infiles[j][r]) = Len(infiles[k][r])

\* Column c of round r holds a field float() rejects.
WordsAt(r, c) ==
    {infiles[k][r][c].w : k \in {j \in ActiveAt(r) : infiles[j][r][c].kind = "word"}}

\* ------------------------------------------------------------------- C21
\* C21: a field that is not a number never aborts average_vals: whatever the
\* order of numeric and non-numeric fields in one column of a round, the
\* round completes and the column's output is the raw non-numeric value,
\* which the division by the active count leaves unchanged.
C21_NonNumericNeverAborts ==
    (mode = "average" /\ ioerrors = {} /\ SameWidthRounds) =>
        /\ pc # "error"
        /\ \A r \in 1..Len(outfile) : \A c \in 1..Len(outfile[r]) :
              WordsAt(r, c) # {} =>
                 /\ outfile[r][c].kind = "str"
                 /\ outfile[r][c].w \in WordsAt(r, c)

\* What does hold: a round aborts only when a column holds a non-numeric
\* field in one file and a numeric field in a later file.
C21_AbortsOnNumberAfterWord ==
    (mode = "average" /\ ioerrors = {} /\ SameWidthRounds) =>
        /\ pc = "error" =>
              \E r \in 1..(Len(outfile) + 1) : \E j, k \in ActiveAt(r) :
                 \E c \in 1..Len(infiles[j][r]) :
                    /\ j < k
                    /\ infiles[j][r][c].kind = "word"
                    /\ infiles[k][r][c].kind = "num"
        /\ \A r \in 1..Len(outfile) : \A c \in 1..Len(outfile[r]) :
              WordsAt(r, c) # {} =>
                 /\ outfile[r][c].kind = "str"
                 /\ outfile[r][c].w \in WordsAt(r, c)

\* The fields float() is applied to: the first Cols(fields) fields of a line.
WordsRead(lines) ==
    UNION {UNION {{<<k, r, c>> : c \in {x \in 1..Cols(infiles[k][r]) :
                                          infiles[k][r][x].kind = "word"}} :
                  r \in 1..lines[k]} :
           k \in 1..Len(infiles)}

\* ------------------------------------------------------------------- C22
\* C22: in one run of average_vals the warning about a field that is not a
\* float is printed at most once, and exactly once when the run has met such
\* a field, however many of them, in whatever rows and files, follow.
C22_OneWarningPerRun ==
    mode = "average" =>
        /\ stdout <= 1
        /\ stdout = 1 <=> warncount = 0
        /\ stdout = 1 => WordsRead(iterators) # {}
        /\ pc \in {"round", "done"} => (WordsRead(iterators) # {} => stdout = 1)

\* Non-numeric fields of two files and two rows have been met; one warning.
C22_Witness ==
    /\ mode = "average" /\ pc = "done"
    /\ Cardinality(WordsRead(iterators)) >= 3
    /\ \E a, b \in WordsRead(iterators) : a[1] # b[1] /\ a[2] # b[2]
    /\ stdout = 1

\* ------------------------------------------------------------------- C23
\* C23: when average_vals ends, by its last line or by an error in a round
\* or in an open(), no input handle it has opened is still open.
C23_HandlesClosedAtExit ==
    (mode = "average" /\ pc \in {"done", "error"}) => handles = {}

\* What does hold: the handles are closed when the loop is left by break.
C23_HandlesClosedAfterBreak ==
    (mode = "average" /\ pc = "done") => handles = {}

\* ================================================== filtered_split_reader
\* The characters of a line: the comment marker, a blank, another character.
LineChars == {"#", " ", "a"}
\* Longest line, without its newline.
MaxLineLen == 3
\* Numbers of lines of a file.
FileLengths == 0..2

\* The characters str.split() splits on.
Whitespace == {" ", "\t", "\n"}

\* line.startswith(comment)
StartsWithComment(line) == Len(line) > 0 /\ line[1] = "#"

\* line.split() from character i on; cur is the field being read.
RECURSIVE SplitFrom(_, _, _)
SplitFrom(line, i, cur) ==
    IF i > Len(line) THEN (IF cur = <<>> THEN <<>> ELSE <<cur>>)
    ELSE IF line[i] \in Whitespace
         THEN (IF cur = <<>> THEN <<>> ELSE <<cur>>) \o SplitFrom(line, i + 1, <<>>)
         ELSE SplitFrom(line, i + 1, Append(cur, line[i]))

\* line.split()
Split(line) == SplitFrom(line, 1, <<>>)

FileLines == UNION {[1..n -> LineChars] : n \in 0..MaxLineLen}

FilterInit ==
    /\ mode = "filter"
    /\ pc = "read"
    /\ file \in UNION {[1..n -> FileLines] : n \in FileLengths}
    /\ file_iter = 0
    /\ yielded = <<>>
    /\ createdLog = <<>> /\ deliveredLog = <<>> /\ outfile = <<>>
    /\ SeriesIdle
    /\ HostIdle /\ MatrixIdle /\ DelayIdle /\ EncountersIdle /\ AverageIdle

\* filter.py lines 2-4: a line starting with the marker is skipped.
ReaderSkip ==
    /\ mode = "filter" /\ pc = "read"
    /\ file_iter < Len(file)
    /\ StartsWithComment(file[file_iter + 1])
    /\ file_iter' = file_iter + 1
    /\ UNCHANGED <<createdLog, deliveredLog, mode, pc, outfile, seriesLocals,
                   hostVars, pdr, delays, encounters, unique_encounters_count,
                   averageVars, file, yielded>>

\* filter.py lines 5-6, 10-11: any other line is yielded, split.
ReaderYield ==
    /\ mode = "filter" /\ pc = "read"
    /\ file_iter < Len(file)
    /\ ~StartsWithComment(file[file_iter + 1])
    /\ file_iter' = file_iter + 1
    /\ yielded' = Append(yielded, Split(file[file_iter + 1]))
    /\ UNCHANGED <<createdLog, deliveredLog, mode, pc, outfile, seriesLocals,
                   hostVars, pdr, delays, encounters, unique_encounters_count,
                   averageVars, file>>

\* filter.py line 2: the file is exhausted.
ReaderEnd ==
    /\ mode = "filter" /\ pc = "read"
    /\ file_iter = Len(file)
    /\ pc' = "done"
    /\ UNCHANGED <<createdLog, deliveredLog, mode, outfile, seriesLocals,
                   reportVars>>

FilterNext == ReaderSkip \/ ReaderYield \/ ReaderEnd

FilterSpec == FilterInit /\ [][FilterNext]_vars

\* The first character of line that is not whitespace is the marker.
IsCommentLine(line) ==
    \E i \in 1..Len(line) :
        /\ line[i] = "#"
        /\ \A j \in 1..(i - 1) : line[j] \in {" ", "\t"}

NotCommentLine(line) == ~IsCommentLine(line)
NotMarkerFirst(line) == ~(Len(line) > 0 /\ line[1] = "#")

\* The fields of a line: its maximal runs of characters other than whitespace.
Fields(line) ==
    LET starts == {i \in 1..Len(line) :
                      /\ line[i] \notin Whitespace
                      /\ i = 1 \/ line[i - 1] \in Whitespace}
        end(i) == CHOOSE e \in i..Len(line) :
                      /\ \A j \in i..e : line[j] \notin Whitespace
                      /\ e = Len(line) \/ line[e + 1] \in Whitespace
        ordered == [k \in 1..Cardinality(starts) |->
                      CHOOSE i \in starts :
                         Cardinality({x \in starts : x < i}) = k - 1]
    IN  [k \in 1..Len(ordered) |-> SubSeq(line, ordered[k], end(ordered[k]))]

\* ------------------------------------------------------------------- C24
\* C24: the reader drops every line whose first character that is not
\* whitespace is '#', also when whitespace precedes the marker, and yields
\* every other line, split on whitespace, once and in file order.
C24_DropsCommentLines ==
    (mode = "filter" /\ pc = "done") =>
        LET kept == SelectSeq(file, NotCommentLine)
        IN  yielded = [k \in 1..Len(kept) |-> Fields(kept[k])]

\* What does hold: the lines dropped are those whose first character is the
\* marker.
C24_DropsLinesStartingWithMarker ==
    (mode = "filter" /\ pc = "done") =>
        LET kept == SelectSeq(file, NotMarkerFirst)
        IN  yielded = [k \in 1..Len(kept) |-> Fields(kept[k])]

\* ============================================ claims on the TTL-aware mode
\* The TTLs of the creation log do not decrease from line to line.
TtlsNonDecreasing ==
    \A i \in 1..(Len(createdLog) - 1) : createdLog[i].ttl <= createdLog[i + 1].ttl

\* ------------------------------------------------------------------- C25
\* C25: with ascending creation timestamps and TTLs that do not decrease in
\* creation order, the pending queue of the TTL-aware mode is always ordered
\* by non-decreasing expiry from front to back, and after pruning at a
\* boundary no entry with an expiry below the boundary is left in it.
C25_QueueOrderedByExpiry ==
    (mode = "ttl" /\ TtlsNonDecreasing) =>
        /\ \A k \in 1..(Len(created_list) - 1) :
              created_list[k].expiry <= created_list[k + 1].expiry
        /\ \A b \in Boundaries : PrunedAt(b) =>
              \A k \in 1..Len(created_list) : created_list[k].expiry >= b

\* Pruning has popped an expired entry and kept two entries that expire at
\* different times.
C25_Witness ==
    /\ mode = "ttl" /\ TtlsNonDecreasing
    /\ \E b \in Boundaries : PrunedAt(b)
    /\ Popped >= 1
    /\ Len(created_list) = 2
    /\ created_list[1].expiry < created_list[2].expiry

\* The creation lines read so far whose message has not expired at the
\* boundary b and of which no delivery line has been counted.
Outstanding(b) ==
    {i \in 1..created_iter :
        /\ PendingEntry(createdLog[i]).expiry >= b
        /\ ~DeliveryCounted(createdLog[i].id)}

\* ------------------------------------------------------------------- C26
\* C26: in the TTL-aware mode the pending queue, once pruned, is never longer
\* than the number of messages read so far that are neither expired nor
\* delivered: a delivered message does not stay in the queue.
C26_QueueHoldsOutstandingOnly ==
    \A b \in Boundaries : PrunedAt(b) =>
        Len(created_list) <= Cardinality(Outstanding(b))

\* What does hold: the queue is a suffix of the creation lines read so far,
\* whatever has been delivered.
C26_QueueIsSuffixOfRead ==
    mode = "ttl" =>
        /\ Len(created_list) <= created_iter
        /\ \A k \in 1..Len(created_list) :
              created_list[k] = PendingEntry(createdLog[Popped + k])

\* ============================================== claims on average_vals
\* The value a field has in an output row when nothing is added to it.
Verbatim(field) ==
    IF field.kind = "num" THEN Float(<<field.n, 1>>) ELSE Str(field.w)

\* ------------------------------------------------------------------- C27
\* C27: every output row of average_vals combines input rows with the same
\* first-column value only, and that value is the first column of the output
\* row: rows with different first-column values are never averaged together.
C27_RowsAlignedByFirstColumn ==
    (mode = "average" /\ ioerrors = {}) =>
        \A r \in 1..Len(outfile) : \A j, k \in ActiveAt(r) :
            /\ infiles[j][r][1] = infiles[k][r][1]
            /\ outfile[r][1] = Verbatim(infiles[k][r][1])

\* What does hold: an output row combines the lines with its line number.
C27_RowsAlignedByLineNumber ==
    (PlainCall /\ infiles = TwoKeys /\ pc = "done") =>
        outfile = << <<Float(<<1, 2>>), Float(<<20, 1>>)>> >>

\* The least number of columns read from a line of round r.
MinCols(r) ==
    CHOOSE m \in {Cols(infiles[k][r]) : k \in ActiveAt(r)} :
        \A k \in ActiveAt(r) : m <= Cols(infiles[k][r])

\* ------------------------------------------------------------------- C28
\* C28: in every round of average_vals on numeric files the output row has as
\* many columns as the shortest line read in the round (at most maxcols), and
\* each is the mean of its column over all lines of the round; no error
\* occurs when the lines of a round have different numbers of fields.
C28_ColumnsAreMinimumOfRound ==
    (mode = "average" /\ ioerrors = {} /\ AllNumeric) =>
        /\ pc # "error"
        /\ \A r \in 1..Len(outfile) :
              /\ Len(outfile[r]) = MinCols(r)
              /\ \A c \in 1..MinCols(r) :
                    outfile[r][c] = Float(Fraction(ColumnSum(ActiveAt(r), r, c),
                                                   Cardinality(ActiveAt(r))))

\* What does hold: the output row has the columns read from the first line
\* of the round, when no later line of the round is longer.
C28_ColumnsAreThoseOfFirstLine ==
    (mode = "average" /\ ioerrors = {} /\ AllNumeric) =>
        /\ pc = "error" =>
              \E j, k \in ActiveAt(Len(outfile) + 1) :
                 j < k /\ Cols(infiles[j][Len(outfile) + 1])
                            < Cols(infiles[k][Len(outfile) + 1])
        /\ \A r \in 1..Len(outfile) :
              LET first == CHOOSE k \in ActiveAt(r) : \A j \in ActiveAt(r) : k <= j
              IN  Len(outfile[r]) = Cols(infiles[first][r])

\* ------------------------------------------------------------------- C29
\* C29: average_vals ends for every list of input files that can be opened:
\* no cursor moves past the end of its file, the loop is left in the first
\* round in which no cursor yields a line, and the output then has as many
\* rows as the longest input file (none for an empty list of files).
C29_StopsAfterLongestFile ==
    (mode = "average" /\ ioerrors = {}) =>
        /\ pc # "error"
        /\ \A k \in 1..Len(infiles) : iterators[k] <= Len(infiles[k])
        /\ Len(outfile) <= Longest
        /\ pc = "done" => Len(outfile) = Longest

\* What does hold: a run that no round aborts writes as many rows as the
\* longest file has lines.
C29_RowsOfCompletedRun ==
    (mode = "average" /\ ioerrors = {}) =>
        /\ \A k \in 1..Len(infiles) : iterators[k] <= Len(infiles[k])
        /\ Len(outfile) <= Longest
        /\ pc = "done" => Len(outfile) = Longest

\* Every pass of the loop ends the run or moves a cursor forward, and a
\* cursor that moves stays within its file: no run has more passes than
\* its files have lines, plus one.
C29_EveryRoundAdvances ==
    [][(mode = "average" /\ pc = "round") =>
          \/ pc' \in {"done", "error"}
          \/ /\ \A k \in 1..Len(infiles) : iterators'[k] >= iterators[k]
             /\ \E k \in 1..Len(infiles) :
                   iterators[k] < iterators'[k] /\ iterators'[k] <= Len(infiles[k])]_vars

\* ------------------------------------------------------------------- C30
\* C30: in the TTL-aware mode, at the start of every loop iteration and at
\* loop exit, the pending queue has created entries, plus the creation at the
\* head of the cursor when the creation cursor is not exhausted; every pop
\* takes one entry from the queue and one from created.
C30_QueueLengthTracksCreated ==
    /\ []((mode = "ttl" /\ pc \in {"loop", "done"}) =>
            Len(created_list) =
                created + (IF created_last_timestamp # Inf THEN 1 ELSE 0))
    /\ [][(mode = "ttl" /\ Len(created_list') < Len(created_list)) =>
             /\ Len(created_list') = Len(created_list) - 1
             /\ created' = created - 1]_vars

\* Two creations have been counted and one of them popped, with a third at
\* the head of the cursor.
C30_Witness ==
    /\ mode = "ttl" /\ pc = "loop"
    /\ created_last_timestamp # Inf
    /\ Popped = 1
    /\ created = 1
    /\ Len(created_list) = 2

\* ------------------------------------------------------------------- C31
\* Lines 120-122: the lines the grid loop of generate_running_delivery writes
\* for one event, starting from the grid point lw, with the ratio r.
RECURSIVE GridLines(_, _, _)
GridLines(lw, now, r) ==
    IF lw + fixedres < now
    THEN <<<<lw + fixedres, r>>>> \o GridLines(lw + fixedres, now, r)
    ELSE <<>>

\* last_write when that grid loop is left.
RECURSIVE GridEnd(_, _)
GridEnd(lw, now) ==
    IF lw + fixedres < now THEN GridEnd(lw + fixedres, now) ELSE lw

\* Lines 102-122: the (timestamp, ratio) lines generate_running_delivery
\* writes on createdLog and deliveredLog from the iteration on that starts
\* with i creations and j deliveries counted and last_write = lw.  The run
\* ends where line 116 divides by zero.
RECURSIVE RunningDelivery(_, _, _)
RunningDelivery(i, j, lw) ==
    LET c_ts == HeadAfter(createdLog, i)
        d_ts == HeadAfter(deliveredLog, j)
        now  == Min(c_ts, d_ts)
        c    == IF d_ts >= c_ts THEN i + 1 ELSE i
        d    == IF d_ts >= c_ts THEN j ELSE j + 1
    IN  IF c_ts = Inf /\ d_ts = Inf THEN <<>>
        ELSE IF c = 0 THEN <<>>
        ELSE IF fixedres = NoRes
             THEN <<<<now, Fraction(d, c)>>>> \o RunningDelivery(c, d, lw)
             ELSE GridLines(lw, now, Fraction(d, c))
                    \o RunningDelivery(c, d, GridEnd(lw, now))

\* The operator above and the actions of the simple mode describe the same
\* output: what a finished run of the simple mode has written is
\* RunningDelivery from the start.
RunningDeliveryIsSimpleOutput ==
    mode = "simple" /\ Ended => Lines = RunningDelivery(0, 0, 0)

\* The first event the merge takes is a creation: there is a creation, and
\* no delivery is stamped earlier than the first creation.
FirstMergedIsCreation ==
    /\ Len(createdLog) > 0
    /\ Len(deliveredLog) > 0 => createdLog[1].t <= deliveredLog[1].t

\* No creation expires before the last event of the two logs.
NoneExpiresBeforeLastEvent ==
    \A i \in 1..Len(createdLog) : \A T \in EventTimes :
        createdLog[i].t + createdLog[i].ttl * TtlFactor >= T

IsPrefix(s, t) == Len(s) <= Len(t) /\ \A k \in 1..Len(s) : s[k] = t[k]

\* C31: on sorted logs whose first merged event is a creation and in which
\* no creation expires before the last event, generate_running_delivery_ttl
\* writes the same sequence of (timestamp, ratio) lines as
\* generate_running_delivery does on these logs with the same fixedres
\* (None or a resolution): all it has written at any point is a prefix of
\* that sequence, and at its end it is the whole sequence.
C31_TtlEmitsSimpleSamples ==
    mode = "ttl" /\ FirstMergedIsCreation /\ NoneExpiresBeforeLastEvent
        => /\ IsPrefix(Lines, RunningDelivery(0, 0, 0))
           /\ pc = "done" => Lines = RunningDelivery(0, 0, 0)

\* A finished resampled TTL run under the precondition of C31 with several
\* grid lines, a counted delivery and a creation with a ttl.
C31_Witness ==
    /\ mode = "ttl" /\ pc = "done" /\ fixedres # NoRes
    /\ FirstMergedIsCreation /\ NoneExpiresBeforeLastEvent
    /\ Len(outfile) >= 2
    /\ \E k \in 1..Len(outfile) : outfile[k].nd >= 1
    /\ \E i \in 1..Len(createdLog) : createdLog[i].ttl > 0
    /\ Lines = RunningDelivery(0, 0, 0)

\* The same for an unresampled run with one line per event.
C31_WitnessUnresampled ==
    /\ mode = "ttl" /\ pc = "done" /\ fixedres = NoRes
    /\ FirstMergedIsCreation /\ NoneExpiresBeforeLastEvent
    /\ Len(outfile) = MaxEvents
    /\ \E k \in 1..Len(outfile) : outfile[k].nd >= 1
    /\ Lines = RunningDelivery(0, 0, 0)

\* Without the precondition the two outputs differ: a creation that expires
\* before a later event leaves the TTL count, but not the simple one.
C31_EqualWithoutPrecondition ==
    mode = "ttl" /\ pc = "done" /\ FirstMergedIsCreation
        => Lines = RunningDelivery(0, 0, 0)

\* How str() renders the timestamp of a written line.  current_time is a
\* float in both functions; last_write starts as float(0) in
\* generate_running_delivery and as the integer 0 in
\* generate_running_delivery_ttl, where adding an integer resolution keeps it
\* an integer: the grid point 60 is written "60.0" by the first and "60" by
\* the second.
TimestampType == IF mode = "ttl" /\ fixedres # NoRes THEN "int" ELSE "float"

\* The lines of the two functions agree as numbers, not as text: with an
\* integer resolution every grid line of the TTL function differs in the
\* rendering of its timestamp.
C31_SameTimestampText ==
    mode = "ttl" /\ FirstMergedIsCreation /\ NoneExpiresBeforeLastEvent
        /\ Len(outfile) > 0 => TimestampType = "float"
====
